---------------------------- MODULE Spec2Model ----------------------------
(***************************************************************************)
(* A model of src/main.mjs: the update cycle of the HLL server browser.    *)
(*                                                                         *)
(* updateServers is an async function run by setInterval.  JavaScript is   *)
(* single threaded: the code between two awaits runs atomically, so every  *)
(* action below is the code from one suspension point (a query, a delay,   *)
(* a Discord call) to the next.  A timer callback can run at any           *)
(* suspension point of a running cycle.                                    *)
(*                                                                         *)
(* Strings the code rewrites (server names, player names) are sequences    *)
(* of characters, so that the rewrites are computed, not assumed.          *)
(***************************************************************************)
EXTENDS Naturals, Integers, Sequences, FiniteSets

(***************************************************************************)
(* Bounds of the model.                                                    *)
(***************************************************************************)
NumServers == 2
MaxCycles == 2
MaxIds == 3
RenderCount == 5

(***************************************************************************)
(* Program constants.                                                      *)
(***************************************************************************)
MAX_RETRIES == 1
NumChannels == 2
MaxPopulation == 40
MaxListed == 40

Servers == 1..NumServers
Channels == 1..NumChannels

\* servers (main.mjs:232): the discovered server list, in discovery order.
servers == [k \in 1..NumServers |-> k]

\* The object {} (main.mjs:174, 181, 275).  A missing field reads as
\* undefined, which the code only ever tests for truthiness: a missing
\* name is the empty string, a missing number is 0.
EmptyInfo == [name |-> <<>>, players |-> 0, maxPlayers |-> 0]

(***************************************************************************)
(* String helpers: the regular expressions and String methods of the code. *)
(***************************************************************************)
ZWSP == "u200B"

IsSpace(c) == c \in {" ", "\t"}

\* s.replace(/\s+/g, ' ')
RECURSIVE CollapseWs(_)
CollapseWs(s) ==
    IF s = <<>> THEN <<>>
    ELSE IF IsSpace(Head(s))
         THEN IF Len(s) > 1 /\ IsSpace(s[2])
              THEN CollapseWs(Tail(s))
              ELSE <<" ">> \o CollapseWs(Tail(s))
         ELSE <<Head(s)>> \o CollapseWs(Tail(s))

RECURSIVE TrimStart(_)
TrimStart(s) ==
    IF s # <<>> /\ IsSpace(Head(s)) THEN TrimStart(Tail(s)) ELSE s

RECURSIVE TrimEnd(_)
TrimEnd(s) ==
    IF s # <<>> /\ IsSpace(s[Len(s)])
    THEN TrimEnd(SubSeq(s, 1, Len(s) - 1))
    ELSE s

\* s.trim()
Trim(s) == TrimEnd(TrimStart(s))

\* s.replace(/\./g, '.\u200B')
RECURSIVE DefangDots(_)
DefangDots(s) ==
    IF s = <<>> THEN <<>>
    ELSE IF Head(s) = "."
         THEN <<".", ZWSP>> \o DefangDots(Tail(s))
         ELSE <<Head(s)>> \o DefangDots(Tail(s))

IsPrefix(p, s) == Len(p) <= Len(s) /\ SubSeq(s, 1, Len(p)) = p

\* s.replace(/pat/g, rep) for a literal, non-empty pattern
RECURSIVE ReplaceAll(_, _, _)
ReplaceAll(s, pat, rep) ==
    IF s = <<>> THEN <<>>
    ELSE IF IsPrefix(pat, s)
         THEN rep \o ReplaceAll(SubSeq(s, Len(pat) + 1, Len(s)), pat, rep)
         ELSE <<Head(s)>> \o ReplaceAll(Tail(s), pat, rep)

ClanTwitch == <<"C", "l", "a", "n", "!", "T", "w", "i", "t", "c", "h">>
Clan == <<"C", "l", "a", "n">>
UnknownServer == <<"Unknown Server">>
ListDisabled == <<"Mehr als 40 Spieler - Liste deaktiviert.">>

\* serverInfo.name.replace(/\s+/g, ' ').trim().replace(/\./g, '.\u200B')
NormalizeName(name) == DefangDots(Trim(CollapseWs(name)))

\* server.name.replace(/Clan!Twitch/g, 'Clan')
RewriteName(name) == ReplaceAll(name, ClanTwitch, Clan)

\* formatDuration: [h, m] stands for the string `${h}:${mm}`.  A missing
\* duration is 0 (player.duration || 0, main.mjs:212).
formatDuration(seconds) ==
    IF seconds < 0 THEN [h |-> 0, m |-> 0]
    ELSE LET totalMinutes == seconds \div 60
         IN  [h |-> totalMinutes \div 60, m |-> totalMinutes % 60]

RECURSIVE FilterNamed(_)
FilterNamed(players) ==
    IF players = <<>> THEN <<>>
    ELSE IF Head(players).name # <<>> /\ Trim(Head(players).name) # <<>>
         THEN <<Head(players)>> \o FilterNamed(Tail(players))
         ELSE FilterNamed(Tail(players))

\* A block that is disabled from 40 players on.
formatPlayerListEmbedFrom40(players) ==
    IF Len(players) >= MaxListed THEN ListDisabled
    ELSE LET named == FilterNamed(players)
         IN  [k \in 1..Len(named) |->
                 [name |-> named[k].name, time |-> formatDuration(named[k].duration)]]

\* formatPlayerListEmbed: the lines of the block (joined by '\n' in the code).
formatPlayerListEmbed(players) ==
    IF Len(players) > MaxListed THEN ListDisabled
    ELSE LET named == FilterNamed(players)
         IN  [k \in 1..Len(named) |->
                 [name |-> named[k].name, time |-> formatDuration(named[k].duration)]]

\* createEmbedsForServer: the title and the parts of the description.
createEmbedsForServer(server) ==
    [title |-> server.name,
     players |-> server.players,
     maxPlayers |-> server.maxPlayers,
     block |-> formatPlayerListEmbed(server.playerList)]

\* The object a server's task returns (main.mjs:280-288).
ServerDetail(server, info, list) ==
    [server |-> server,
     players |-> info.players,
     maxPlayers |-> IF info.maxPlayers = 0 THEN 100 ELSE info.maxPlayers,
     name |-> IF info.name # <<>> THEN NormalizeName(info.name) ELSE UnknownServer,
     playerList |-> list]

\* A filter that leaves the full server out.
ShownBelow(server) == server.players > 0 /\ server.players < MaxPopulation

\* .filter(server => server.players > 0 && server.players <= 40)
Shown(server) == server.players > 0 /\ server.players <= MaxPopulation

RECURSIVE FilterShown(_)
FilterShown(details) ==
    IF details = <<>> THEN <<>>
    ELSE IF Shown(Head(details))
         THEN <<Head(details)>> \o FilterShown(Tail(details))
         ELSE FilterShown(Tail(details))

\* An insertion that puts x in front of its equals: a sort that is not stable.
RECURSIVE InsertDescUnstable(_, _)
InsertDescUnstable(sorted, x) ==
    IF sorted = <<>> THEN <<x>>
    ELSE IF Head(sorted).players - x.players <= 0
         THEN <<x>> \o sorted
         ELSE <<Head(sorted)>> \o InsertDescUnstable(Tail(sorted), x)

\* Insert x into a sequence sorted by players descending, after every element
\* that does not sort after it: Array.prototype.sort is stable.
RECURSIVE InsertDesc(_, _)
InsertDesc(sorted, x) ==
    IF sorted = <<>> THEN <<x>>
    ELSE IF Head(sorted).players - x.players < 0
         THEN <<x>> \o sorted
         ELSE <<Head(sorted)>> \o InsertDesc(Tail(sorted), x)

\* .sort((a, b) => b.players - a.players)
RECURSIVE SortDesc(_)
SortDesc(details) ==
    IF details = <<>> THEN <<>>
    ELSE InsertDesc(SortDesc(SubSeq(details, 1, Len(details) - 1)),
                    details[Len(details)])

\* A loop that remembers the names as the servers reported them.
RECURSIVE DedupeRawName(_, _)
DedupeRawName(sorted, seen) ==
    IF sorted = <<>> THEN <<>>
    ELSE LET serverName == RewriteName(Head(sorted).name)
         IN  IF Head(sorted).name \notin seen
             THEN <<[Head(sorted) EXCEPT !.name = serverName]>>
                      \o DedupeRawName(Tail(sorted), seen \cup {Head(sorted).name})
             ELSE DedupeRawName(Tail(sorted), seen)

\* The loop of main.mjs:298-308: the servers kept, each under its rewritten
\* name, given the names seen so far.
RECURSIVE Dedupe(_, _)
Dedupe(sorted, seen) ==
    IF sorted = <<>> THEN <<>>
    ELSE LET serverName == RewriteName(Head(sorted).name)
         IN  IF serverName \notin seen
             THEN <<[Head(sorted) EXCEPT !.name = serverName]>>
                      \o Dedupe(Tail(sorted), seen \cup {serverName})
             ELSE Dedupe(Tail(sorted), seen)

sortedServers(details) == SortDesc(FilterShown(details))

\* The names the loop of main.mjs:298-308 warns about (logger.warn, 306).
RECURSIVE DuplicateWarnings(_, _)
DuplicateWarnings(sorted, seen) ==
    IF sorted = <<>> THEN <<>>
    ELSE LET serverName == RewriteName(Head(sorted).name)
         IN  IF serverName \notin seen
             THEN DuplicateWarnings(Tail(sorted), seen \cup {serverName})
             ELSE <<serverName>> \o DuplicateWarnings(Tail(sorted), seen)

\* embedsToSend as built from the gathered serverDetails.
BuildEmbeds(details) ==
    LET kept == Dedupe(sortedServers(details), {})
    IN  [k \in 1..Len(kept) |-> createEmbedsForServer(kept[k])]


(***************************************************************************)
(* What the query transport can answer (the environment).                  *)
(***************************************************************************)
Letters == <<"A", "B", "C", "D">>
PlayerCounts == {5, 41}
Lower == <<"a", "b", "c", "d">>

InfoReplies(s) ==
    {[name |-> <<Letters[s]>>, players |-> p, maxPlayers |-> 100] : p \in PlayerCounts}

PlayerReplies(s) == {<<[name |-> <<Lower[s]>>, duration |-> 125]>>}

(***************************************************************************)
(* State.                                                                  *)
(***************************************************************************)
VARIABLES
    isUpdating,     \* main.mjs:247
    cache,          \* lastSuccessfulQueryResults, main.mjs:124
    lastMessages,   \* main.mjs:53
    pc,             \* where the running updateServers invocation is suspended
    tpc,            \* per server: where its task of servers.map is suspended
    serverInfo,     \* per server: the task's local serverInfo
    playerList,     \* per server: the task's local playerList
    retries,        \* per server: the retries parameter of getPlayerList
    embedsToSend,   \* main.mjs:295
    chan,           \* the channel of the loop at main.mjs:310
    i,              \* the index of the loops at main.mjs:317 and 335
    newMessages,    \* main.mjs:315
    posted,         \* per channel: the messages the bot sent that still exist
    nextId,         \* per channel: the id Discord gives the next message
    lastLog,        \* what the last invocation logged: "skipped" (main.mjs:251),
                    \* "failed" (main.mjs:351) or "" (neither)
    active,         \* ghost: invocations past the guard, not yet in finally
    round,          \* ghost: the number of cycles started
    infoRound,      \* ghost: the round whose reply serverInfo[s] is (0: none)
    listRound,      \* ghost: the round whose reply playerList[s] is (0: none)
    cacheRound,     \* ghost: the rounds of the two fields of cache[s]
    calls,          \* ghost: transport calls and delays of the running fetches
    ops,            \* ghost: the Discord operations of the current (or last) pass
    source,         \* ghost: per channel, the embedsToSend of the pass that
                    \* assigned lastMessages[channelId] last
    delFailed       \* ghost: a delete of a leftover message has failed

taskVars == <<tpc, serverInfo, playerList, retries, infoRound, listRound, calls>>
cacheVars == <<cache, cacheRound>>
reconVars == <<embedsToSend, chan, i, newMessages>>
surfVars == <<lastMessages, posted, nextId>>
guardVars == <<isUpdating, active>>
opVars == <<ops, source, delFailed>>
vars == <<pc, lastLog, round, guardVars, taskVars, cacheVars, reconVars, surfVars, opVars>>

NoCalls == [info |-> 0, players |-> 0, delays |-> 0]
NoOps == [edits |-> 0, creates |-> 0, deletes |-> 0, failed |-> FALSE]

Init ==
    /\ isUpdating = FALSE
    /\ cache = <<>>
    /\ lastMessages = [c \in Channels |-> <<>>]
    /\ pc = "idle"
    /\ tpc = [s \in Servers |-> "idle"]
    /\ serverInfo = [s \in Servers |-> EmptyInfo]
    /\ playerList = [s \in Servers |-> <<>>]
    /\ retries = [s \in Servers |-> 0]
    /\ embedsToSend = <<>>
    /\ chan = 0
    /\ i = 0
    /\ newMessages = <<>>
    /\ posted = [c \in Channels |-> {}]
    /\ nextId = [c \in Channels |-> 1]
    /\ lastLog = ""
    /\ active = 0
    /\ round = 0
    /\ infoRound = [s \in Servers |-> 0]
    /\ listRound = [s \in Servers |-> 0]
    /\ cacheRound = <<>>
    /\ calls = [s \in Servers |-> NoCalls]
    /\ ops = NoOps
    /\ source = [c \in Channels |-> <<>>]
    /\ delFailed = FALSE

(***************************************************************************)
(* The cache (lastSuccessfulQueryResults) and the two fetch functions.     *)
(***************************************************************************)
Put(f, k, v) == [x \in DOMAIN f \cup {k} |-> IF x = k THEN v ELSE f[x]]

\* A fallback that reads whichever entry the cache holds, not the server's own.
InfoFallbackAnyEntry(s) ==
    IF DOMAIN cache # {}
    THEN cache[CHOOSE k \in DOMAIN cache : TRUE].serverInfo
    ELSE EmptyInfo

\* lastSuccessfulQueryResults[serverKey]?.serverInfo, else {} (main.mjs:177-181)
InfoFallback(s) == IF s \in DOMAIN cache THEN cache[s].serverInfo ELSE EmptyInfo

\* A fallback that forgets the cache.
ListFallbackEmpty(s) == <<>>

\* lastSuccessfulQueryResults[serverKey]?.playerList, else [] (main.mjs:155-160)
ListFallback(s) == IF s \in DOMAIN cache THEN cache[s].playerList ELSE <<>>

InfoFallbackRound(s) == IF s \in DOMAIN cache THEN cacheRound[s].serverInfo ELSE 0
ListFallbackRound(s) == IF s \in DOMAIN cache THEN cacheRound[s].playerList ELSE 0

\* The retry test off by one.
ShouldRetryOffByOne(r) == r >= 0

\* if (retries > 0) (main.mjs:150)
ShouldRetry(r) == r > 0

\* lastSuccessfulQueryResults[serverKey] = { serverInfo, playerList } (main.mjs:267)
CacheWrite(s, info, list) == Put(cache, s, [serverInfo |-> info, playerList |-> list])

\* The end of a server's task once getPlayerList has returned list: the
\* cache write of main.mjs:267 and the return of main.mjs:280.
TaskReturns(s, list, listR) ==
    /\ playerList' = [playerList EXCEPT ![s] = list]
    /\ listRound' = [listRound EXCEPT ![s] = listR]
    /\ cache' = CacheWrite(s, serverInfo[s], list)
    /\ cacheRound' = Put(cacheRound, s, [serverInfo |-> infoRound[s], playerList |-> listR])
    /\ tpc' = [tpc EXCEPT ![s] = "done"]

(***************************************************************************)
(* updateServers: the guard (main.mjs:249-255).                            *)
(***************************************************************************)
\* A guard that lets every invocation in.
GuardNever == FALSE

\* if (isUpdating)
GuardBlocks == isUpdating

\* The skip written inside the try block: its finally clears the flag.
UpdateSkippedReleases ==
    /\ GuardBlocks
    /\ lastLog' = "skipped"
    /\ isUpdating' = FALSE
    /\ UNCHANGED <<pc, round, active, taskVars, cacheVars, reconVars, surfVars, opVars>>

\* The timer fires while a cycle runs: log and return.
UpdateSkipped ==
    /\ GuardBlocks
    /\ lastLog' = "skipped"
    /\ UNCHANGED <<pc, round, guardVars, taskVars, cacheVars, reconVars, surfVars, opVars>>

\* The timer fires and the guard lets the invocation in: isUpdating = true,
\* then servers.map starts every server's task, each up to its first await
\* (the delay of main.mjs:258), and the invocation awaits Promise.all.
UpdateStart ==
    /\ ~GuardBlocks
    /\ round < MaxCycles
    /\ isUpdating' = TRUE
    /\ active' = active + 1
    /\ round' = round + 1
    /\ lastLog' = ""
    /\ pc' = "gather"
    /\ tpc' = [s \in Servers |-> "delay"]
    /\ serverInfo' = [s \in Servers |-> EmptyInfo]
    /\ playerList' = [s \in Servers |-> <<>>]
    /\ retries' = [s \in Servers |-> 0]
    /\ infoRound' = [s \in Servers |-> 0]
    /\ listRound' = [s \in Servers |-> 0]
    /\ calls' = [s \in Servers |-> NoCalls]
    /\ embedsToSend' = <<>>
    /\ chan' = 0
    /\ i' = 0
    /\ newMessages' = <<>>
    /\ ops' = NoOps
    /\ UNCHANGED <<cacheVars, surfVars, source, delFailed>>

(***************************************************************************)
(* One server's task (main.mjs:257-289) with getServerInfo and             *)
(* getPlayerList inlined.                                                  *)
(***************************************************************************)
TaskFrame == UNCHANGED <<pc, lastLog, round, guardVars, reconVars, surfVars, opVars>>

\* delay(QUERY_DELAY) is over: getServerInfo issues query.info.
DelayDone(s) ==
    /\ tpc[s] = "delay"
    /\ tpc' = [tpc EXCEPT ![s] = "info"]
    /\ calls' = [calls EXCEPT ![s].info = @ + 1]
    /\ UNCHANGED <<serverInfo, playerList, retries, infoRound, listRound, cacheVars>>
    /\ TaskFrame

\* getServerInfo has its value v (of round r): getPlayerList issues query.players.
InfoReturns(s, v, r) ==
    /\ serverInfo' = [serverInfo EXCEPT ![s] = v]
    /\ infoRound' = [infoRound EXCEPT ![s] = r]
    /\ retries' = [retries EXCEPT ![s] = MAX_RETRIES]
    /\ tpc' = [tpc EXCEPT ![s] = "players"]
    /\ calls' = [calls EXCEPT ![s].players = @ + 1]
    /\ UNCHANGED <<playerList, listRound, cacheVars>>
    /\ TaskFrame

\* query.info answers.
InfoReply(s) ==
    /\ tpc[s] = "info"
    /\ \E v \in InfoReplies(s) : InfoReturns(s, v, round)

\* query.info fails (timeout, transport error): the catch of main.mjs:175.
InfoFail(s) ==
    /\ tpc[s] = "info"
    /\ InfoReturns(s, InfoFallback(s), InfoFallbackRound(s))

\* query.players answers.
PlayersReply(s) ==
    /\ tpc[s] = "players"
    /\ \E l \in PlayerReplies(s) : TaskReturns(s, l, round)
    /\ UNCHANGED <<serverInfo, retries, infoRound, calls>>
    /\ TaskFrame

\* query.players fails with retries left: wait, then call again.
PlayersRetry(s) ==
    /\ tpc[s] = "players"
    /\ ShouldRetry(retries[s])
    /\ tpc' = [tpc EXCEPT ![s] = "retry"]
    /\ retries' = [retries EXCEPT ![s] = @ - 1]
    /\ calls' = [calls EXCEPT ![s].delays = @ + 1]
    /\ UNCHANGED <<serverInfo, playerList, infoRound, listRound, cacheVars>>
    /\ TaskFrame

\* The delay before the retry is over: query.players is issued again.
RetryDelayDone(s) ==
    /\ tpc[s] = "retry"
    /\ tpc' = [tpc EXCEPT ![s] = "players"]
    /\ calls' = [calls EXCEPT ![s].players = @ + 1]
    /\ UNCHANGED <<serverInfo, playerList, retries, infoRound, listRound, cacheVars>>
    /\ TaskFrame

\* query.players fails with no retry left: the cached list, or [].
PlayersFallback(s) ==
    /\ tpc[s] = "players"
    /\ ~ShouldRetry(retries[s])
    /\ TaskReturns(s, ListFallback(s), ListFallbackRound(s))
    /\ UNCHANGED <<serverInfo, retries, infoRound, calls>>
    /\ TaskFrame

(***************************************************************************)
(* updateServers after Promise.all: render, then reconcile each channel.   *)
(***************************************************************************)
CycleFrame == UNCHANGED <<round, cacheVars>>

\* finally { isUpdating = false } (main.mjs:352-354); the locals die.
Finally ==
    /\ isUpdating' = FALSE
    /\ active' = active - 1
    /\ pc' = "idle"
    /\ chan' = 0
    /\ i' = 0
    /\ newMessages' = <<>>
    /\ embedsToSend' = <<>>

\* A catch with no finally after it: the flag stays set.
CycleFailsWedged ==
    /\ pc' = "idle"
    /\ chan' = 0
    /\ i' = 0
    /\ newMessages' = <<>>
    /\ embedsToSend' = <<>>
    /\ UNCHANGED guardVars

\* catch (error) of main.mjs:350, then the finally block.
CycleFails == Finally

\* The for loop of main.mjs:310 moves on: the next channel's fetch, or the end.
NextChannel ==
    IF chan < NumChannels
    THEN /\ pc' = "channel"
         /\ chan' = chan + 1
         /\ i' = 0
         /\ newMessages' = <<>>
         /\ UNCHANGED <<embedsToSend, guardVars>>
    ELSE Finally

\* A failure that escapes to the catch of main.mjs:350 and ends the cycle.
ChannelAbortedEndsCycle == UNCHANGED <<lastMessages, source>> /\ Finally

\* catch (error) of main.mjs:346: the channel's pass is abandoned.
ChannelAborted == UNCHANGED <<lastMessages, source>> /\ NextChannel

\* lastMessages[channelId] = newMessages (main.mjs:344)
PassDone(nm) ==
    /\ lastMessages' = [lastMessages EXCEPT ![chan] = nm]
    /\ source' = [source EXCEPT ![chan] = embedsToSend]
    /\ NextChannel

\* A reconciler that has forgotten the slots of the previous cycle.
NoPreviousMessages == <<>>

\* const previousMessages = lastMessages[channelId] || [] (main.mjs:314)
previousMessages == lastMessages[chan]

RunningFrame == UNCHANGED <<chan, embedsToSend, guardVars, lastMessages, source>>

\* A reconciler without the loop of main.mjs:335.
DeleteLoopSkipped(j, nm) == PassDone(nm)

\* The loop of main.mjs:335 at index j (1-based).
DeleteLoop(j, nm) ==
    IF j <= Len(previousMessages)
    THEN pc' = "delfetch" /\ i' = j /\ newMessages' = nm /\ RunningFrame
    ELSE PassDone(nm)

\* The loop of main.mjs:317 at index k (1-based).
ItemLoop(k, nm) ==
    IF k <= Len(embedsToSend)
    THEN /\ pc' = IF k <= Len(previousMessages) THEN "fetch" ELSE "send"
         /\ i' = k
         /\ newMessages' = nm
         /\ RunningFrame
    ELSE DeleteLoop(k, nm)

\* What Promise.all resolves to: the tasks' results in the order of the
\* server list srv, whatever the order the tasks returned in.
Details(srv, info, list) ==
    [k \in 1..Len(srv) |-> ServerDetail(srv[k], info[srv[k]], list[srv[k]])]

serverDetails == Details(servers, serverInfo, playerList)

\* Once the results are gathered the tasks' locals are dead.
TasksOver ==
    /\ tpc' = [s \in Servers |-> "idle"]
    /\ serverInfo' = [s \in Servers |-> EmptyInfo]
    /\ playerList' = [s \in Servers |-> <<>>]
    /\ retries' = [s \in Servers |-> 0]
    /\ infoRound' = [s \in Servers |-> 0]
    /\ listRound' = [s \in Servers |-> 0]
    /\ calls' = [s \in Servers |-> NoCalls]

\* Promise.any in place of Promise.all.
AnyResolved == \E s \in Servers : tpc[s] = "done"

\* Promise.all resolves only when every task has returned.
AllResolved == \A s \in Servers : tpc[s] = "done"

\* Promise.all resolves; filter, sort, dedupe, render (main.mjs:291-308);
\* then the first channel is fetched.
Gather ==
    /\ pc = "gather"
    /\ AllResolved
    /\ embedsToSend' = BuildEmbeds(serverDetails)
    /\ pc' = "channel"
    /\ chan' = 1
    /\ i' = 0
    /\ newMessages' = <<>>
    /\ TasksOver
    /\ UNCHANGED <<lastLog, guardVars, surfVars, opVars>>
    /\ CycleFrame

\* Promise.all resolves and rendering throws (EmbedBuilder validates the
\* title and the description): catch of main.mjs:350, then finally.
RenderThrows ==
    /\ pc = "gather"
    /\ AllResolved
    /\ BuildEmbeds(serverDetails) # <<>>
    /\ CycleFails
    /\ lastLog' = "failed"
    /\ TasksOver
    /\ UNCHANGED <<surfVars, opVars>>
    /\ CycleFrame

ReconFrame == UNCHANGED <<lastLog, taskVars>> /\ CycleFrame

\* client.channels.fetch answers with the channel.
ChannelFetched ==
    /\ pc = "channel"
    /\ ItemLoop(1, <<>>)
    /\ UNCHANGED <<posted, nextId>>
    /\ ops' = NoOps
    /\ UNCHANGED delFailed
    /\ ReconFrame

\* client.channels.fetch answers with no channel: if (channel) is false.
ChannelMissing ==
    /\ pc = "channel"
    /\ ChannelAborted
    /\ UNCHANGED <<posted, nextId>>
    /\ ops' = NoOps
    /\ UNCHANGED delFailed
    /\ ReconFrame

\* client.channels.fetch throws.
ChannelFetchFails ==
    /\ pc = "channel"
    /\ ChannelAborted
    /\ UNCHANGED <<posted, nextId>>
    /\ ops' = [NoOps EXCEPT !.failed = TRUE]
    /\ UNCHANGED delFailed
    /\ ReconFrame

\* channel.messages.fetch(previousMessages[i]) answers: msg.edit is called.
MessageFetched ==
    /\ pc = "fetch"
    /\ previousMessages[i] \in posted[chan]
    /\ pc' = "edit"
    /\ UNCHANGED <<i, newMessages, posted, nextId>>
    /\ RunningFrame
    /\ ops' = ops
    /\ UNCHANGED delFailed
    /\ ReconFrame

\* A failed fetch that gives the item up and moves on to the next one.
MessageFetchFailsSkips ==
    /\ pc = "fetch"
    /\ ItemLoop(i + 1, newMessages)
    /\ UNCHANGED <<posted, nextId>>
    /\ ops' = [ops EXCEPT !.failed = TRUE]
    /\ UNCHANGED delFailed
    /\ ReconFrame

\* channel.messages.fetch throws: the catch of main.mjs:324 sends instead.
MessageFetchFails ==
    /\ pc = "fetch"
    /\ pc' = "send"
    /\ UNCHANGED <<i, newMessages, posted, nextId>>
    /\ RunningFrame
    /\ ops' = [ops EXCEPT !.failed = TRUE]
    /\ UNCHANGED delFailed
    /\ ReconFrame

\* msg.edit succeeds: newMessages.push(previousMessages[i]).
Edited ==
    /\ pc = "edit"
    /\ ItemLoop(i + 1, Append(newMessages, previousMessages[i]))
    /\ UNCHANGED <<posted, nextId>>
    /\ ops' = [ops EXCEPT !.edits = @ + 1]
    /\ UNCHANGED delFailed
    /\ ReconFrame

\* msg.edit throws: the catch of main.mjs:324 sends instead.
EditFails ==
    /\ pc = "edit"
    /\ pc' = "send"
    /\ UNCHANGED <<i, newMessages, posted, nextId>>
    /\ RunningFrame
    /\ ops' = [ops EXCEPT !.failed = TRUE]
    /\ UNCHANGED delFailed
    /\ ReconFrame

\* channel.send succeeds: newMessages.push(msg.id).
Sent ==
    /\ pc = "send"
    /\ nextId[chan] <= MaxIds
    /\ posted' = [posted EXCEPT ![chan] = @ \cup {nextId[chan]}]
    /\ nextId' = [nextId EXCEPT ![chan] = @ + 1]
    /\ ItemLoop(i + 1, Append(newMessages, nextId[chan]))
    /\ ops' = [ops EXCEPT !.creates = @ + 1]
    /\ UNCHANGED delFailed
    /\ ReconFrame

\* channel.send throws: nothing catches it before main.mjs:346.
SendFails ==
    /\ pc = "send"
    /\ ChannelAborted
    /\ UNCHANGED <<posted, nextId>>
    /\ ops' = [ops EXCEPT !.failed = TRUE]
    /\ UNCHANGED delFailed
    /\ ReconFrame

\* The fetch of a leftover message answers: msg.delete is called.
LeftoverFetched ==
    /\ pc = "delfetch"
    /\ previousMessages[i] \in posted[chan]
    /\ pc' = "delete"
    /\ UNCHANGED <<i, newMessages, posted, nextId>>
    /\ RunningFrame
    /\ ops' = ops
    /\ UNCHANGED delFailed
    /\ ReconFrame

\* The fetch of a leftover message throws: logged (main.mjs:339-341).
LeftoverFetchFails ==
    /\ pc = "delfetch"
    /\ DeleteLoop(i + 1, newMessages)
    /\ UNCHANGED <<posted, nextId>>
    /\ ops' = [ops EXCEPT !.failed = TRUE]
    /\ delFailed' = TRUE
    /\ ReconFrame

\* msg.delete succeeds.
Deleted ==
    /\ pc = "delete"
    /\ posted' = [posted EXCEPT ![chan] = @ \ {previousMessages[i]}]
    /\ DeleteLoop(i + 1, newMessages)
    /\ UNCHANGED nextId
    /\ ops' = [ops EXCEPT !.deletes = @ + 1]
    /\ UNCHANGED delFailed
    /\ ReconFrame

\* msg.delete throws: logged (main.mjs:339-341).
DeleteFails ==
    /\ pc = "delete"
    /\ DeleteLoop(i + 1, newMessages)
    /\ UNCHANGED <<posted, nextId>>
    /\ ops' = [ops EXCEPT !.failed = TRUE]
    /\ delFailed' = TRUE
    /\ ReconFrame

(***************************************************************************)
(* The specification.                                                      *)
(***************************************************************************)
TaskStep(s) ==
    \/ DelayDone(s)
    \/ InfoReply(s)
    \/ InfoFail(s)
    \/ PlayersReply(s)
    \/ PlayersRetry(s)
    \/ RetryDelayDone(s)
    \/ PlayersFallback(s)

\* A Discord call of the reconciliation returns or throws.
ReconStep ==
    \/ ChannelFetched
    \/ ChannelMissing
    \/ ChannelFetchFails
    \/ MessageFetched
    \/ MessageFetchFails
    \/ Edited
    \/ EditFails
    \/ Sent
    \/ SendFails
    \/ LeftoverFetched
    \/ LeftoverFetchFails
    \/ Deleted
    \/ DeleteFails

Next ==
    \/ UpdateSkipped
    \/ UpdateStart
    \/ \E s \in Servers : TaskStep(s)
    \/ Gather
    \/ RenderThrows
    \/ ReconStep

Spec == Init /\ [][Next]_vars

\* The invocation leaves its await of Promise.all (a step of Gather or of
\* RenderThrows, told by pc alone).
Resolved == pc = "gather" /\ AllResolved /\ pc' \in {"channel", "idle"}

\* Every call of the running cycle returns or fails in the end, and a
\* resolved promise is resumed; the timer need not fire.
FairSpec ==
    /\ Spec
    /\ \A s \in Servers : WF_vars(TaskStep(s))
    /\ WF_pc(Resolved)
    /\ WF_vars(ReconStep)

(***************************************************************************)
(* The render step alone (main.mjs:291-308), applied to gathered results   *)
(* drawn from bounded sets: a list of RenderCount servers.                 *)
(***************************************************************************)
renderServers == [k \in 1..RenderCount |-> k]

RenderLetters == <<"A", "B", "C", "D", "E", "F", "G">>
RenderPops == {0, 5, 40, 41}
ShownPops == {0, 5, 40}
RenderNames == {ClanTwitch, Clan, <<"X">>}

\* The player sessions query.players can report.
Named == [name |-> <<"a">>, duration |-> 125]
Unnamed == [name |-> <<>>, duration |-> 0]
Blank == [name |-> <<" ", " ">>, duration |-> 3600]
Padded == [name |-> <<" ", "b">>, duration |-> 59]
Sessions == {Named, Unnamed, Blank, Padded}

Uniform(n, p) == [k \in 1..n |-> p]
Mixed(n) == [k \in 1..n |-> IF k % 2 = 1 THEN Named ELSE Blank]

\* Player lists: every list of at most two sessions, and lists of 40 and of
\* 41 sessions.
ListShapes ==
    {<<>>} \cup {<<p>> : p \in Sessions} \cup {<<p, q>> : p, q \in Sessions}
        \cup {Uniform(n, p) : n \in {MaxListed, MaxListed + 1}, p \in {Named, Unnamed}}
        \cup {Mixed(n) : n \in {MaxListed, MaxListed + 1}}

\* The gathered results of count servers: every population with the
\* servers' names apart, every name with populations around the filter, and
\* for one displayed server every player list.
RenderInputs(count) ==
    {[info |-> [s \in 1..count |->
                   [name |-> <<RenderLetters[s]>>, players |-> f[s], maxPlayers |-> 100]],
      list |-> [s \in 1..count |-> <<Named>>]] :
        f \in [1..count -> RenderPops]}
    \cup
    {[info |-> [s \in 1..count |->
                   [name |-> n[s], players |-> f[s], maxPlayers |-> 100]],
      list |-> [s \in 1..count |-> <<Named>>]] :
        f \in [1..count -> ShownPops], n \in [1..count -> RenderNames]}
    \cup
    {[info |-> [s \in 1..count |->
                   [name |-> <<RenderLetters[s]>>,
                    players |-> IF s = 1 THEN q ELSE 0,
                    maxPlayers |-> 100]],
      list |-> [s \in 1..count |-> IF s = 1 THEN l ELSE <<>>]] :
        q \in RenderPops, l \in ListShapes}

\* The state in which Promise.all resolves in the first cycle: every task
\* has returned its results and written them to the cache.
RenderInit ==
    /\ \E in \in RenderInputs(RenderCount) :
          /\ serverInfo = in.info
          /\ playerList = in.list
          /\ cache = [s \in 1..RenderCount |->
                         [serverInfo |-> in.info[s], playerList |-> in.list[s]]]
    /\ cacheRound = [s \in 1..RenderCount |-> [serverInfo |-> 1, playerList |-> 1]]
    /\ isUpdating = TRUE
    /\ active = 1
    /\ round = 1
    /\ pc = "gather"
    /\ tpc = [s \in 1..RenderCount |-> "done"]
    /\ retries = [s \in 1..RenderCount |-> MAX_RETRIES]
    /\ infoRound = [s \in 1..RenderCount |-> 1]
    /\ listRound = [s \in 1..RenderCount |-> 1]
    /\ calls = [s \in 1..RenderCount |-> [info |-> 1, players |-> 1, delays |-> 0]]
    /\ lastMessages = [c \in Channels |-> <<>>]
    /\ embedsToSend = <<>>
    /\ chan = 0
    /\ i = 0
    /\ newMessages = <<>>
    /\ posted = [c \in Channels |-> {}]
    /\ nextId = [c \in Channels |-> 1]
    /\ lastLog = <<>>
    /\ ops = NoOps
    /\ source = [c \in Channels |-> <<>>]
    /\ delFailed = FALSE

\* filter, sort, dedupe, render: embedsToSend is built and the duplicate
\* names are logged (lastLog holds the warnings here).
Render ==
    /\ pc = "gather"
    /\ \A s \in DOMAIN tpc : tpc[s] = "done"
    /\ LET details == Details(renderServers, serverInfo, playerList)
       IN  /\ embedsToSend' = BuildEmbeds(details)
           /\ lastLog' = DuplicateWarnings(sortedServers(details), {})
    /\ pc' = "rendered"
    /\ UNCHANGED <<round, guardVars, taskVars, cacheVars, chan, i, newMessages,
                   surfVars, opVars>>

RenderNext == Render

RenderSpec == RenderInit /\ [][RenderNext]_vars

(***************************************************************************)
(* Properties.                                                             *)
(***************************************************************************)
\* The invocation runs: it is suspended at a query, a delay or a Discord call.
PassStates == {"fetch", "edit", "send", "delfetch", "delete"}
Running == pc \in {"gather", "channel"} \cup PassStates

\* A timer callback runs (either branch of the guard).
TimerFires == UpdateSkipped \/ UpdateStart

\* C1: at most one invocation of updateServers is past the re-entrancy guard
\* at a time, wherever the timer fires among the suspension points of a
\* running cycle.
C1_AtMostOneCycle == active <= 1

\* C1 witness: the timer fired while the cycle was suspended in a Discord call.
C1_Witness == lastLog = "skipped" /\ active = 1 /\ pc = "edit"

\* C2: a cycle that has passed the guard clears the flag in the end, whether
\* it completes or fails, and a timer firing with the flag clear starts a
\* full cycle.
C2_GuardReleased ==
    /\ isUpdating ~> ~isUpdating
    /\ [][(TimerFires /\ ~isUpdating) => (isUpdating' /\ pc' = "gather")]_vars

\* C2 witness: a cycle has failed (the catch of main.mjs:350) and the flag is clear.
C2_Witness == lastLog = "failed" /\ ~isUpdating /\ round >= 1

\* C3: a timer firing that finds a cycle running changes nothing but the log:
\* no query, no cache write, no Discord operation, no slot list change, and
\* the flag stays set.
C3_SkipChangesNothing ==
    [][(TimerFires /\ isUpdating) =>
          (isUpdating' /\ UNCHANGED <<pc, round, active, taskVars, cacheVars,
                                      reconVars, surfVars, opVars>>)]_vars

\* C3 witness: a firing was skipped while a server's query was in flight.
C3_Witness ==
    lastLog = "skipped" /\ isUpdating /\ \E s \in Servers : tpc[s] = "players"

\* getServerInfo returns to server s's task a value that is not this round's
\* reply: query.info failed.
InfoFellBack(s) == tpc[s] = "info" /\ tpc'[s] = "players" /\ infoRound'[s] # round

\* getPlayerList returns to server s's task a value that is not this round's
\* reply: query.players failed on every attempt.
ListFellBack(s) == tpc[s] = "players" /\ tpc'[s] = "done" /\ listRound'[s] # round

\* The pass over the current channel ends: its loops are left for the next
\* channel or for the end of the cycle.
PassEnds == pc \in PassStates /\ pc' \notin PassStates

\* C4: the cache never pairs the info reply of one query round with the
\* player list reply of another round (a cycle where only one of the two
\* queries succeeds leaves the previous pair in place).
C4_CachePairsOneRound ==
    \A s \in DOMAIN cache :
        (cacheRound[s].serverInfo # 0 /\ cacheRound[s].playerList # 0)
            => cacheRound[s].serverInfo = cacheRound[s].playerList

\* C5: a task in which both the info query and the players query (after all
\* retries) failed leaves the server's cache entry as it was: absent stays
\* absent, present stays identical.
C5_FailedQueriesKeepCache ==
    [][\A s \in Servers :
          (ListFellBack(s) /\ infoRound[s] # round) =>
              /\ (s \in DOMAIN cache') = (s \in DOMAIN cache)
              /\ s \in DOMAIN cache => cache'[s] = cache[s]]_vars

\* C6: for a server with no cache entry a failed info query yields {} and a
\* players query that failed on every attempt yields []; the task goes on
\* and the invocation keeps awaiting Promise.all (nothing is thrown to it).
C6_NoCacheYieldsEmpty ==
    [][\A s \in Servers :
          s \notin DOMAIN cache =>
              /\ InfoFellBack(s) => serverInfo'[s] = EmptyInfo /\ pc' = "gather"
              /\ ListFellBack(s) => playerList'[s] = <<>> /\ pc' = "gather"]_vars

\* C6 witness: with another server cached, both fetches of an uncached server
\* have failed (the players query twice) and its task holds {} and [].
C6_Witness ==
    \E s \in Servers :
        /\ tpc[s] = "done"
        /\ cacheRound[s] = [serverInfo |-> 0, playerList |-> 0]
        /\ serverInfo[s] = EmptyInfo /\ playerList[s] = <<>>
        /\ calls[s].players = MAX_RETRIES + 1
        /\ round = 1
        /\ \E k \in DOMAIN cache : cacheRound[k].serverInfo = 1

\* C7: for a server with a cache entry a failed info query returns exactly
\* the cached info of that server, and a players query that failed on every
\* attempt returns exactly the cached player list of that server.
C7_FallbackIsCachedValue ==
    [][\A s \in Servers :
          s \in DOMAIN cache =>
              /\ InfoFellBack(s) => serverInfo'[s] = cache[s].serverInfo
              /\ ListFellBack(s) => playerList'[s] = cache[s].playerList]_vars

\* C7 witness: both fetches of a server fell back to the replies of an
\* earlier round while the cache holds a different entry for another server.
C7_Witness ==
    \E s \in Servers :
        /\ tpc[s] = "done"
        /\ infoRound[s] \notin {0, round}
        /\ listRound[s] \notin {0, round}
        /\ \E k \in DOMAIN cache :
              /\ cache[k].serverInfo \notin {serverInfo[s], EmptyInfo}
              /\ cache[k].playerList \notin {playerList[s], <<>>}

\* C8 as claimed: a fetch whose transport keeps failing has made its first
\* attempt plus MAX_RETRIES further ones when it falls back, the info fetch
\* as well as the players fetch.
C8_EachFetchRetried ==
    \A s \in Servers :
        /\ (tpc[s] \in {"players", "retry", "done"} /\ infoRound[s] # round)
              => calls[s].info = MAX_RETRIES + 1
        /\ (tpc[s] = "done" /\ listRound[s] # round)
              => calls[s].players = MAX_RETRIES + 1

\* C8 amended: the players fetch makes its first attempt plus exactly
\* MAX_RETRIES further ones, a delay before each, and only then falls back;
\* the info fetch makes exactly one attempt and falls back at once; neither
\* makes more than MAX_RETRIES + 1 transport calls.
C8_OnlyPlayersRetried ==
    \A s \in Servers :
        /\ calls[s].info <= 1
        /\ calls[s].players <= MAX_RETRIES + 1
        /\ tpc[s] \in {"players", "retry", "done"} => calls[s].info = 1
        /\ tpc[s] \in {"players", "done"} => calls[s].delays = calls[s].players - 1
        /\ tpc[s] = "retry" => calls[s].delays = calls[s].players
        /\ (tpc[s] = "done" /\ listRound[s] # round)
              => calls[s].players = MAX_RETRIES + 1 /\ calls[s].delays = MAX_RETRIES

\* C8 witness: both fetches of a server have failed and fallen back: one
\* info call, two players calls, one delay.
C8_Witness ==
    \E s \in Servers :
        /\ tpc[s] = "done"
        /\ infoRound[s] # round /\ listRound[s] # round
        /\ calls[s] = [info |-> 1, players |-> MAX_RETRIES + 1, delays |-> MAX_RETRIES]

\* The rendered items confirmed published by the pass that ends with this
\* step: those recorded in newMessages, and the one this step edits or sends.
PublishedInPass ==
    Len(newMessages) + IF pc = "edit" \/ nextId'[chan] # nextId[chan] THEN 1 ELSE 0

\* C9: when the pass over a surface ends, the slot list remembered for that
\* surface has exactly as many entries as rendered items were confirmed
\* published to it in the pass, a slot replaced by a new send counting once
\* (the list is not touched again before the end of the cycle).
C9_SlotListMatchesItems ==
    [][PassEnds => Len(lastMessages'[chan]) = PublishedInPass]_vars

Reconciling == pc \in {"channel"} \cup PassStates

\* The reconciliation of channel chan is over with this step (a step of the
\* invocation, not a skipped firing of the timer).
ChannelLeft == Reconciling /\ ~TimerFires /\ pc' \notin PassStates

\* The pass over channel chan ends with this step and no Discord operation
\* of the pass has failed.
EndsClean == PassEnds /\ ~ops'.failed

Min(a, b) == IF a < b THEN a ELSE b

\* C11: a pass in which every operation succeeds, run with the rendered items
\* and the slot list of the pass that assigned the list last, edits every
\* slot, creates none, deletes none and leaves the remembered list as it was.
C11_SecondRunOnlyEdits ==
    [][(EndsClean /\ source[chan] = embedsToSend) =>
          /\ ops'.edits = Len(embedsToSend)
          /\ ops'.creates = 0
          /\ ops'.deletes = 0
          /\ lastMessages'[chan] = lastMessages[chan]]_vars

\* C11 witness: in the second cycle channel 1 has been reconciled with the
\* two items both channels were reconciled with in the first: two edits.
C11_Witness ==
    /\ round = 2 /\ pc = "channel" /\ chan = 2
    /\ Len(embedsToSend) = 2
    /\ source[1] = embedsToSend /\ source[2] = embedsToSend
    /\ ops = [edits |-> 2, creates |-> 0, deletes |-> 0, failed |-> FALSE]
    /\ lastMessages[1] = <<1, 2>>

\* C12: a pass in which every operation succeeds, over N previous slots and
\* M rendered items, makes min(N, M) edits, M - min(N, M) creates and
\* N - min(N, M) deletes, and a delete removes a slot of the previous list
\* that lies behind the rendered items.
C12_GrowShrinkCounts ==
    /\ [][EndsClean =>
             LET N == Len(previousMessages)
                 M == Len(embedsToSend)
             IN  /\ ops'.edits = Min(N, M)
                 /\ ops'.creates = M - Min(N, M)
                 /\ ops'.deletes = N - Min(N, M)]_vars
    /\ [][(pc = "delete" /\ posted' # posted) =>
             /\ i > Len(embedsToSend) /\ i <= Len(previousMessages)
             /\ ~ops'.failed => ops'.deletes = i - Len(embedsToSend)
             /\ posted'[chan] = posted[chan] \ {previousMessages[i]}]_vars

\* C12 witness: channel 1 grew from no slot to two in the first cycle and
\* shrank from two slots to one in the second: one edit, one delete.
C12_Witness ==
    /\ round = 2 /\ pc = "channel" /\ chan = 2
    /\ nextId[1] = 3 /\ posted[1] = {1} /\ lastMessages[1] = <<1>>
    /\ ops = [edits |-> 1, creates |-> 0, deletes |-> 1, failed |-> FALSE]

\* The list of the pass after a step: newMessages, or the remembered list
\* when the step ends the pass.
ListAfter == IF PassEnds THEN lastMessages'[chan] ELSE newMessages'

C18_SurfacesIsolated ==
    /\ [][Reconciling =>
             \A c \in Channels \ {chan} :
                 /\ lastMessages'[c] = lastMessages[c]
                 /\ posted'[c] = posted[c]
                 /\ nextId'[c] = nextId[c]]_vars
    /\ [][ChannelLeft =>
             IF chan < NumChannels
             THEN /\ pc' = "channel" /\ chan' = chan + 1
                  /\ embedsToSend' = embedsToSend
                  /\ isUpdating'
             ELSE pc' = "idle"]_vars

\* C18 witness: the pass over channel 1 was abandoned after a send (its list
\* is still empty) and the pass over channel 2 is sending its second item.
C18_Witness ==
    /\ round = 1 /\ chan = 2 /\ pc = "send"
    /\ posted[1] # {} /\ lastMessages[1] = <<>>
    /\ newMessages = <<1>> /\ Len(embedsToSend) = 2

\* The cache entry of server s is written with this step.
CacheWritten(s) ==
    /\ s \in DOMAIN cache'
    /\ s \notin DOMAIN cache \/ cache'[s] # cache[s] \/ cacheRound'[s] # cacheRound[s]

\* C19: the invocation leaves its await of Promise.all only when every
\* server's task has returned; no task runs and nothing is rendered or sent
\* before; in a task the info query is over before the players query is
\* issued, and the cache is written when both are over.
C19_Barrier ==
    /\ [][(pc = "gather" /\ pc' # "gather") =>
             \A s \in Servers : tpc[s] = "done"]_vars
    /\ [](Reconciling => \A s \in Servers : tpc[s] = "idle")
    /\ [](pc = "gather" => embedsToSend = <<>>)
    /\ [][pc = "gather" => UNCHANGED surfVars]_vars
    /\ [](\A s \in Servers :
             /\ tpc[s] \in {"delay", "info"} => calls[s].players = 0
             /\ tpc[s] \in {"players", "retry", "done"} => calls[s].info = 1)
    /\ [][\A s \in Servers :
             CacheWritten(s) =>
                 /\ tpc[s] = "players" /\ tpc'[s] = "done"
                 /\ calls[s].info = 1 /\ calls[s].players >= 1]_vars

\* C19 witness: in the first cycle server 2 answered both queries while the
\* players query of server 1 failed twice; the items of both are rendered.
C19_Witness ==
    /\ round = 1 /\ pc = "channel"
    /\ Len(embedsToSend) = 2
    /\ 1 \in DOMAIN cacheRound /\ 2 \in DOMAIN cacheRound
    /\ cacheRound[1] = [serverInfo |-> 1, playerList |-> 0]
    /\ cacheRound[2] = [serverInfo |-> 1, playerList |-> 1]

Range(f) == {f[x] : x \in DOMAIN f}

\* C20: at the end of a cycle, no delete having failed, every message the
\* bot sent to a channel and that still exists is in the channel's
\* remembered slot list.
C20_NoOrphans ==
    (pc = "idle" /\ ~delFailed) =>
        \A c \in Channels : posted[c] \subseteq Range(lastMessages[c])

\* The render step has run on the gathered results still held in serverInfo
\* and playerList.
Rendered == pc = "rendered"

\* The gathered results the render step was applied to.
gathered == Details(renderServers, serverInfo, playerList)

\* Server s is within the population filter.
InRange(s) == serverInfo[s].players > 0 /\ serverInfo[s].players <= 40

\* The display name of server s after both rewrites.
DisplayName(s) == RewriteName(NormalizeName(serverInfo[s].name))

\* C13: the servers that survive the filter are exactly those with a
\* population p, 0 < p <= 40, each once; the rendered items show only such
\* populations and names of such servers; the populations 0, 5, 41, 40, 40
\* leave 40, 40, 5.
C13_PopulationFilter ==
    Rendered =>
        LET sorted == sortedServers(gathered)
            kept == {s \in 1..RenderCount : InRange(s)}
        IN  /\ {sorted[k].server : k \in DOMAIN sorted} = kept
            /\ Len(sorted) = Cardinality(kept)
            /\ \A k \in DOMAIN embedsToSend :
                  /\ embedsToSend[k].players > 0 /\ embedsToSend[k].players <= 40
                  /\ \E s \in kept :
                        /\ embedsToSend[k].title = DisplayName(s)
                        /\ embedsToSend[k].players = serverInfo[s].players
            /\ {embedsToSend[k].title : k \in DOMAIN embedsToSend}
                  = {DisplayName(s) : s \in kept}
            /\ [s \in 1..RenderCount |-> serverInfo[s].players] = <<0, 5, 41, 40, 40>>
                  => [k \in DOMAIN sorted |-> sorted[k].players] = <<40, 40, 5>>

\* C13 witness: the populations 0, 5, 41, 40, 40 under five different names
\* have been rendered: three items.
C13_Witness ==
    /\ Rendered
    /\ [s \in 1..RenderCount |-> serverInfo[s].players] = <<0, 5, 41, 40, 40>>
    /\ [k \in DOMAIN embedsToSend |-> embedsToSend[k].players] = <<40, 40, 5>>

\* The server at position k of the sorted list is the first of its rewritten
\* name.
FirstOfName(sorted, k) ==
    \A j \in 1..(k - 1) : RewriteName(sorted[j].name) # RewriteName(sorted[k].name)

\* C14: no two rendered items have the same title; of the surviving servers,
\* in sorted order, the first of each rewritten name is rendered under that
\* name and every later one is left out with one warning naming it.
C14_DedupeByRewrittenName ==
    Rendered =>
        LET sorted == sortedServers(gathered)
            firsts == {k \in DOMAIN sorted : FirstOfName(sorted, k)}
            later == DOMAIN sorted \ firsts
        IN  /\ \A j, k \in DOMAIN embedsToSend :
                  embedsToSend[j].title = embedsToSend[k].title => j = k
            /\ Len(embedsToSend) = Cardinality(firsts)
            /\ \A k \in firsts :
                  \E e \in DOMAIN embedsToSend :
                      /\ embedsToSend[e].title = RewriteName(sorted[k].name)
                      /\ embedsToSend[e].players = sorted[k].players
                      /\ embedsToSend[e].block = formatPlayerListEmbed(sorted[k].playerList)
            /\ Len(lastLog) = Cardinality(later)
            /\ \A k \in later :
                  \E w \in DOMAIN lastLog : lastLog[w] = RewriteName(sorted[k].name)
            /\ \A w \in DOMAIN lastLog :
                  \E k \in later : lastLog[w] = RewriteName(sorted[k].name)

\* C14 witness: server 1 "Clan!Twitch" with 40 players and server 2 "Clan"
\* with 5 collide; the item "Clan" shows 40 players and one warning is logged.
C14_Witness ==
    /\ Rendered
    /\ serverInfo[1].name = ClanTwitch /\ serverInfo[1].players = 40
    /\ serverInfo[2].name = Clan /\ serverInfo[2].players = 5
    /\ \A s \in 3..RenderCount : serverInfo[s].name = <<"X">> /\ serverInfo[s].players = 5
    /\ lastLog = <<Clan, <<"X">>, <<"X">>>>
    /\ Len(embedsToSend) = 2
    /\ embedsToSend[1].title = Clan /\ embedsToSend[1].players = 40

\* The position in the sorted list of the server rendered as item e.
Origin(sorted, e) ==
    CHOOSE k \in DOMAIN sorted :
        /\ RewriteName(sorted[k].name) = embedsToSend[e].title
        /\ FirstOfName(sorted, k)

\* C15: the surviving servers are ordered by population descending, equal
\* populations in the order of the server list, and the rendered items
\* follow that order.
C15_SortedStable ==
    Rendered =>
        LET sorted == sortedServers(gathered)
        IN  /\ \A j, k \in DOMAIN sorted :
                  j < k =>
                      \/ serverInfo[sorted[j].server].players
                             > serverInfo[sorted[k].server].players
                      \/ /\ serverInfo[sorted[j].server].players
                               = serverInfo[sorted[k].server].players
                         /\ sorted[j].server < sorted[k].server
            /\ \A a, b \in DOMAIN embedsToSend :
                  a < b =>
                      /\ embedsToSend[a].players >= embedsToSend[b].players
                      /\ Origin(sorted, a) < Origin(sorted, b)

\* C15 witness: servers 2 and 3 (40 players each) are rendered in that order
\* in front of server 1 (5 players).
C15_Witness ==
    /\ Rendered
    /\ [s \in 1..RenderCount |-> serverInfo[s].players] = <<5, 40, 40, 0, 41>>
    /\ [k \in DOMAIN embedsToSend |-> embedsToSend[k].title] = <<<<"B">>, <<"C">>, <<"A">>>>

\* A session's name is not blank: it has a character that is not a space.
NonBlank(p) == \E k \in DOMAIN p.name : p.name[k] \notin {" ", "\t"}

\* The lines of the sessions with a non-blank name, in the order of the list.
NamedLines(players) ==
    LET named == SelectSeq(players, NonBlank)
    IN  [k \in DOMAIN named |->
            [name |-> named[k].name,
             time |-> [h |-> named[k].duration \div 3600,
                       m |-> (named[k].duration \div 60) % 60]]]

\* C16: the block of a rendered item is the placeholder when the server's
\* player list has more than 40 sessions, whatever its population field,
\* and the lines of the sessions with a non-blank name otherwise.
C16_PlayerBlock ==
    Rendered =>
        LET kept == Dedupe(sortedServers(gathered), {})
        IN  /\ Len(kept) = Len(embedsToSend)
            /\ \A k \in DOMAIN embedsToSend :
                  LET players == playerList[kept[k].server]
                  IN  embedsToSend[k].block =
                          IF Len(players) > 40 THEN ListDisabled
                          ELSE NamedLines(players)

\* C16 witness: a server reporting 5 players with a list of 41 sessions is
\* rendered with the placeholder.
C16_Witness ==
    /\ Rendered
    /\ serverInfo[1].players = 5
    /\ Len(playerList[1]) = 41
    /\ Len(embedsToSend) = 1
    /\ embedsToSend[1].players = 5
    /\ embedsToSend[1].block = ListDisabled

=============================================================================
